---- MODULE Spec2Model ----
(***************************************************************************)
(* Model of server.py: the CODEOWNERS cache (CodeownersCache) and the      *)
(* get_file_owner tool that queries it.  Each thread runs one              *)
(* get_file_owner call at a time; the calls interleave at the lock, at     *)
(* the two blocking HTTP requests and at the clock.                        *)
(***************************************************************************)
EXTENDS Integers, Sequences, FiniteSets, TLC

\* ------------------------------------------------------------------ bounds

MaxTime == 3

\* ------------------------------------------------------- program constants

CACHE_TTL_SECS == 2

None == "None"
GITHUB_TOKEN == None

\* -------------------------------------------------------------- the inputs

Threads == {"t1", "t2"}
NoThread == "nobody"

\* Strings that are formatted into the key are sequences of characters.
\* (owner, repo, branch) of the repositories queried.
Triples ==
    { <<  <<"a">>, <<"b">>, <<"m">>  >>,
      <<  <<"a">>, <<"c">>, <<"m">>  >> }

\* Two triples that differ and are formatted into the same key: '@' may stand
\* in a branch name as well as in the repo argument.
KeyTriples ==
    { <<  <<"a">>, <<"b">>, <<"x", "@", "m">>  >>,
      <<  <<"a">>, <<"b", "@", "x">>, <<"m">>  >> }

Paths == {"main.go", "README.md"}

\* What the matcher answers for each path of the rule documents "d1" and "d2"
\* the remote may serve: an ordered list of (kind, identifier).
Rules(content, path) ==
    CASE path = "main.go" /\ content = "d1" ->
            << <<"TEAM", "@acme/backend">> >>
      [] path = "main.go" /\ content = "d2" ->
            << <<"USERNAME", "@zed">>, <<"TEAM", "@acme/backend">>,
               <<"EMAIL", "bob@acme.io">>, <<"USERNAME", "@zed">> >>
      [] OTHER -> << >>

\* The 200 responses: a document with an ETag header, or without one
\* (response.headers.get("ETag") is then None).
Responses ==
    { [status_code |-> 200, text |-> "d1", ETag |-> "e1"],
      [status_code |-> 200, text |-> "d2", ETag |-> None] }
    \cup { [status_code |-> s, text |-> "", ETag |-> None] : s \in {304, 404, 500} }

\* The status codes get_file_exists may receive.
ExistsStatuses == {200, 404, 500}

NoResponse == [status_code |-> 0, text |-> "", ETag |-> None]

NoError == [type |-> "None", msg |-> "", status_code |-> 0]
NoArgs == [owner |-> << >>, repo |-> << >>, path |-> "", branch |-> << >>]
NoRuleSet == [p \in {} |-> << >>]

\* ------------------------------------------------------------ dictionaries

EmptyDict == [k \in {} |-> None]
Get(d, k, default) == IF k \in DOMAIN d THEN d[k] ELSE default
Put(d, k, v) == [x \in (DOMAIN d) \cup {k} |-> IF x = k THEN v ELSE d[x]]

\* Python truthiness of an optional string.
Truthy(v) == v \notin {None, ""}

\* ------------------------------------------------------------------- state

VARIABLES
    cache,        \* self.cache: key -> CodeOwners object
    etags,        \* self.etags: key -> ETag header of the last 200
    timestamps,   \* self.timestamps: key -> time of the last 200 / 304
    lock,         \* self.lock: the thread holding it, or NoThread
    clock,        \* time.time()
    pc,           \* where each thread's get_file_owner call stands
    args,         \* the call's arguments (owner, repo, path, branch)
    key,          \* get_codeowners: key
    now,          \* get_codeowners: now
    headers,      \* get_codeowners: headers of the request in flight
    response,     \* the response the call received last
    codeowners,   \* get_file_owner: the CodeOwners object returned
    ret,          \* get_file_owner: the list returned
    error,        \* the exception the call ends with
    fetches,      \* number of requests.get calls get_codeowners made in this call
    existsCalls,  \* number of get_file_exists calls made in this call
    waited        \* how the latest fetch of the same key ended that completed
                  \* while this call stood at the lock: "no", "stored", "failed"

locals == <<pc, args, key, now, headers, response, codeowners, ret, error,
            fetches, existsCalls, waited>>
vars == <<cache, etags, timestamps, lock, clock, locals>>

\* ------------------------------------------------------------ pure helpers

\* f"{owner}/{repo}@{branch}"
Key(owner, repo, branch) == owner \o <<"/">> \o repo \o <<"@">> \o branch

\* CodeOwners(content): the parsed rule set, queried by .of(path)
CodeOwners(content) == [p \in Paths |-> Rules(content, p)]

HeadersWithToken(h) ==
    IF Truthy(GITHUB_TOKEN) THEN Put(h, "Authorization", GITHUB_TOKEN) ELSE h

get_headers(etag) ==
    LET h == HeadersWithToken(Put(EmptyDict, "Accept", "application/vnd.github.v3.raw"))
    IN  IF Truthy(etag) THEN Put(h, "If-None-Match", etag) ELSE h

\* mutants of CacheHit: the comparison inverted, and the window's end included
CacheHit_Inverted(k, t) ==
    /\ k \in DOMAIN cache
    /\ t - Get(timestamps, k, 0) > CACHE_TTL_SECS

CacheHit_Inclusive(k, t) ==
    /\ k \in DOMAIN cache
    /\ t - Get(timestamps, k, 0) <= CACHE_TTL_SECS

\* key in self.cache and now - self.timestamps.get(key, 0) < CACHE_TTL_SECS
CacheHit(k, t) ==
    /\ k \in DOMAIN cache
    /\ t - Get(timestamps, k, 0) < CACHE_TTL_SECS

\* mutant of OwnerNames: the kinds are kept instead of the identifiers
RECURSIVE OwnerNames_Kinds(_)
OwnerNames_Kinds(owners) ==
    IF owners = << >> THEN << >>
    ELSE <<Head(owners)[1]>> \o OwnerNames_Kinds(Tail(owners))

\* [o for _, o in owners]
RECURSIVE OwnerNames(_)
OwnerNames(owners) ==
    IF owners = << >> THEN << >>
    ELSE <<Head(owners)[2]>> \o OwnerNames(Tail(owners))

\* mutants of the lock: taken without looking, and released before the request
LockFree_Ignored == TRUE
Acquired_Released(t) == NoThread

\* with self.lock: the lock is free to take, and held by the thread that took it
LockFree == lock = NoThread
Acquired(t) == t

\* mutants of the branches: a 304 that does not refresh the timestamp, a
\* failure that refreshes it, and a 404 stored as an empty rule set
Store304_NoRefresh(k, n) ==
    UNCHANGED <<cache, etags, timestamps>>

StoreFailed_Refreshes(k, n, resp) ==
    /\ timestamps' = Put(timestamps, k, n)
    /\ UNCHANGED <<cache, etags>>

StoreFailed_CachesEmpty(k, n, resp) ==
    IF resp.status_code = 404
    THEN /\ cache' = Put(cache, k, [p \in Paths |-> << >>])
         /\ etags' = Put(etags, k, None)
         /\ timestamps' = Put(timestamps, k, n)
    ELSE UNCHANGED <<cache, etags, timestamps>>

\* mutant of Store200: the stored ETag is kept when the response has none
Store200_KeepsOldETag(k, n, resp) ==
    /\ cache' = Put(cache, k, CodeOwners(resp.text))
    /\ etags' = IF Truthy(resp.ETag) \/ k \notin DOMAIN etags
                THEN Put(etags, k, resp.ETag) ELSE etags
    /\ timestamps' = Put(timestamps, k, n)

\* the three branches on response.status_code, as writes to the dictionaries
Store304(k, n) ==
    /\ timestamps' = Put(timestamps, k, n)
    /\ UNCHANGED <<cache, etags>>

Store200(k, n, resp) ==
    /\ cache' = Put(cache, k, CodeOwners(resp.text))
    /\ etags' = Put(etags, k, resp.ETag)
    /\ timestamps' = Put(timestamps, k, n)

StoreFailed(k, n, resp) ==
    UNCHANGED <<cache, etags, timestamps>>

\* mutant of get_file_exists: a 404 taken for an existing file
get_file_exists_NotFoundIsTrue(status) ==
    CASE status \in {200, 404} -> "True"
      [] OTHER -> "raise"

\* get_file_exists: True, False or an exception, by the status code
get_file_exists(status) ==
    CASE status = 200 -> "True"
      [] status = 404 -> "False"
      [] OTHER -> "raise"

\* -------------------------------------------------------------------- Init

Init ==
    /\ cache = EmptyDict
    /\ etags = EmptyDict
    /\ timestamps = EmptyDict
    /\ lock = NoThread
    /\ clock = 0
    /\ pc = [t \in Threads |-> "idle"]
    /\ args = [t \in Threads |-> NoArgs]
    /\ key = [t \in Threads |-> << >>]
    /\ now = [t \in Threads |-> 0]
    /\ headers = [t \in Threads |-> EmptyDict]
    /\ response = [t \in Threads |-> NoResponse]
    /\ codeowners = [t \in Threads |-> NoRuleSet]
    /\ ret = [t \in Threads |-> << >>]
    /\ error = [t \in Threads |-> NoError]
    /\ fetches = [t \in Threads |-> 0]
    /\ existsCalls = [t \in Threads |-> 0]
    /\ waited = [t \in Threads |-> "no"]

\* ----------------------------------------------------------------- actions

\* time passes
Tick ==
    /\ clock < MaxTime
    /\ clock' = clock + 1
    /\ UNCHANGED <<cache, etags, timestamps, lock, locals>>

\* get_file_owner is invoked; get_codeowners formats the key and reaches the lock
Call(t) ==
    /\ pc[t] = "idle"
    /\ \E tr \in Triples, p \in Paths :
        /\ args' = [args EXCEPT ![t] =
                      [owner |-> tr[1], repo |-> tr[2], path |-> p, branch |-> tr[3]]]
        /\ key' = [key EXCEPT ![t] = Key(tr[1], tr[2], tr[3])]
    /\ pc' = [pc EXCEPT ![t] = "get_codeowners"]
    /\ UNCHANGED <<cache, etags, timestamps, lock, clock, now, headers, response,
                   codeowners, ret, error, fetches, existsCalls, waited>>

\* the lock is taken, the entry is fresh: return it and release the lock
Hit(t) ==
    /\ pc[t] = "get_codeowners"
    /\ LockFree
    /\ CacheHit(key[t], clock)
    /\ codeowners' = [codeowners EXCEPT ![t] = cache[key[t]]]
    /\ pc' = [pc EXCEPT ![t] = "of"]
    /\ UNCHANGED <<cache, etags, timestamps, lock, clock, args, key, now, headers,
                   response, ret, error, fetches, existsCalls, waited>>

\* the lock is taken, no fresh entry: send the request, keeping the lock
Miss(t) ==
    /\ pc[t] = "get_codeowners"
    /\ LockFree
    /\ ~CacheHit(key[t], clock)
    /\ lock' = Acquired(t)
    /\ now' = [now EXCEPT ![t] = clock]
    /\ headers' = [headers EXCEPT ![t] = get_headers(Get(etags, key[t], None))]
    /\ fetches' = [fetches EXCEPT ![t] = @ + 1]
    /\ pc' = [pc EXCEPT ![t] = "requests_get"]
    /\ UNCHANGED <<cache, etags, timestamps, clock, args, key, response,
                   codeowners, ret, error, existsCalls, waited>>

\* mutant of Leave: an exit by exception keeps the lock
Leave_KeepsLockOnFailure(t, resp, outcome) ==
    /\ lock' = IF outcome = "failed" THEN lock ELSE NoThread
    /\ response' = [response EXCEPT ![t] = resp]
    /\ now' = [now EXCEPT ![t] = 0]
    /\ headers' = [headers EXCEPT ![t] = EmptyDict]
    /\ waited' = [u \in Threads |->
                    IF u = t THEN "no"
                    ELSE IF pc[u] = "get_codeowners" /\ key[u] = key[t]
                         THEN outcome ELSE waited[u]]

\* leaving get_codeowners after the request: the lock is released, the locals
\* are gone, and the calls standing at the lock for the same key have seen
\* this fetch end
Leave(t, resp, outcome) ==
    /\ lock' = NoThread
    /\ response' = [response EXCEPT ![t] = resp]
    /\ now' = [now EXCEPT ![t] = 0]
    /\ headers' = [headers EXCEPT ![t] = EmptyDict]
    /\ waited' = [u \in Threads |->
                    IF u = t THEN "no"
                    ELSE IF pc[u] = "get_codeowners" /\ key[u] = key[t]
                         THEN outcome ELSE waited[u]]

\* the call is over: only what it returns or raises is left of it
Done(t) ==
    /\ pc' = [pc EXCEPT ![t] = "done"]
    /\ args' = [args EXCEPT ![t] = NoArgs]
    /\ key' = [key EXCEPT ![t] = << >>]
    /\ codeowners' = [codeowners EXCEPT ![t] = NoRuleSet]

Raise(t, type, msg, status) ==
    /\ error' = [error EXCEPT ![t] = [type |-> type, msg |-> msg, status_code |-> status]]
    /\ Done(t)

\* 304: the timestamp is refreshed and the cached object returned; with no
\* cached object self.cache[key] raises KeyError after the timestamp is written
NotModified(t) ==
    /\ pc[t] = "requests_get"
    /\ \E resp \in Responses :
        /\ resp.status_code = 304
        /\ Store304(key[t], now[t])
        /\ IF key[t] \in DOMAIN cache
           THEN /\ Leave(t, resp, "stored")
                /\ codeowners' = [codeowners EXCEPT ![t] = cache[key[t]]]
                /\ pc' = [pc EXCEPT ![t] = "of"]
                /\ UNCHANGED <<error, args, key>>
           ELSE /\ Leave(t, resp, "failed")
                /\ Raise(t, "KeyError", "", 0)
    /\ UNCHANGED <<clock, ret, fetches, existsCalls>>

\* 200: the document is parsed and stored with its ETag and the time read
\* before the request
Fresh(t) ==
    /\ pc[t] = "requests_get"
    /\ \E resp \in Responses :
        /\ resp.status_code = 200
        /\ Store200(key[t], now[t], resp)
        /\ Leave(t, resp, "stored")
    /\ codeowners' = [codeowners EXCEPT ![t] = cache'[key[t]]]
    /\ pc' = [pc EXCEPT ![t] = "of"]
    /\ UNCHANGED <<clock, args, key, ret, error, fetches, existsCalls>>

\* any other status: logged and raised
Failed(t) ==
    /\ pc[t] = "requests_get"
    /\ \E resp \in Responses :
        /\ resp.status_code \notin {304, 200}
        /\ StoreFailed(key[t], now[t], resp)
        /\ Leave(t, resp, "failed")
        /\ Raise(t, "Exception", "Failed to fetch CODEOWNERS", resp.status_code)
    /\ UNCHANGED <<clock, ret, fetches, existsCalls>>

\* requests.get raises (no response): the exception leaves the with block
FetchRaises(t) ==
    /\ pc[t] = "requests_get"
    /\ Leave(t, NoResponse, "failed")
    /\ Raise(t, "RequestException", "", 0)
    /\ UNCHANGED <<cache, etags, timestamps, clock, ret, fetches, existsCalls>>

\* codeowners.of(path); owners found are returned, none asks get_file_exists.
\* What get_codeowners left behind for inspection is dropped.
Of(t) ==
    /\ pc[t] = "of"
    /\ LET owners == codeowners[t][args[t].path]
       IN  IF owners # << >>
           THEN /\ ret' = [ret EXCEPT ![t] = OwnerNames(owners)]
                /\ Done(t)
                /\ UNCHANGED existsCalls
           ELSE /\ pc' = [pc EXCEPT ![t] = "get_file_exists"]
                /\ existsCalls' = [existsCalls EXCEPT ![t] = @ + 1]
                /\ UNCHANGED <<ret, args, key, codeowners>>
    /\ response' = [response EXCEPT ![t] = NoResponse]
    /\ fetches' = [fetches EXCEPT ![t] = 0]
    /\ waited' = [waited EXCEPT ![t] = "no"]
    /\ UNCHANGED <<cache, etags, timestamps, lock, clock, now, headers, error>>

\* get_file_exists returns True: the file exists and has no owner
Exists(t) ==
    /\ pc[t] = "get_file_exists"
    /\ \E status \in ExistsStatuses :
        /\ get_file_exists(status) = "True"
        /\ response' = [response EXCEPT ![t] =
                          [status_code |-> status, text |-> "", ETag |-> None]]
    /\ ret' = [ret EXCEPT ![t] = << >>]
    /\ Done(t)
    /\ UNCHANGED <<cache, etags, timestamps, lock, clock, now, headers,
                   error, fetches, existsCalls, waited>>

\* get_file_exists returns False: FileNotFoundError
NotExists(t) ==
    /\ pc[t] = "get_file_exists"
    /\ \E status \in ExistsStatuses :
        /\ get_file_exists(status) = "False"
        /\ response' = [response EXCEPT ![t] =
                          [status_code |-> status, text |-> "", ETag |-> None]]
    /\ Raise(t, "FileNotFoundError", "File not found in repo", 0)
    /\ UNCHANGED <<cache, etags, timestamps, lock, clock, now, headers,
                   ret, fetches, existsCalls, waited>>

\* get_file_exists raises on any other status
ExistsFailed(t) ==
    /\ pc[t] = "get_file_exists"
    /\ \E status \in ExistsStatuses :
        /\ get_file_exists(status) = "raise"
        /\ response' = [response EXCEPT ![t] =
                          [status_code |-> status, text |-> "", ETag |-> None]]
        /\ Raise(t, "Exception", "Unexpected error when checking file existence",
                 status)
    /\ UNCHANGED <<cache, etags, timestamps, lock, clock, now, headers,
                   ret, fetches, existsCalls, waited>>

\* get_file_exists: requests.get raises
ExistsRaises(t) ==
    /\ pc[t] = "get_file_exists"
    /\ Raise(t, "RequestException", "", 0)
    /\ UNCHANGED <<cache, etags, timestamps, lock, clock, now, headers,
                   response, ret, fetches, existsCalls, waited>>

\* the caller has the result; the thread is ready for the next call
Return(t) ==
    /\ pc[t] = "done"
    /\ pc' = [pc EXCEPT ![t] = "idle"]
    /\ response' = [response EXCEPT ![t] = NoResponse]
    /\ ret' = [ret EXCEPT ![t] = << >>]
    /\ error' = [error EXCEPT ![t] = NoError]
    /\ fetches' = [fetches EXCEPT ![t] = 0]
    /\ existsCalls' = [existsCalls EXCEPT ![t] = 0]
    /\ UNCHANGED <<cache, etags, timestamps, lock, clock, args, key, now, headers,
                   codeowners, waited>>

Next ==
    \/ Tick
    \/ \E t \in Threads : Call(t)
    \/ \E t \in Threads : Hit(t)
    \/ \E t \in Threads : Miss(t)
    \/ \E t \in Threads : NotModified(t)
    \/ \E t \in Threads : Fresh(t)
    \/ \E t \in Threads : Failed(t)
    \/ \E t \in Threads : FetchRaises(t)
    \/ \E t \in Threads : Of(t)
    \/ \E t \in Threads : Exists(t)
    \/ \E t \in Threads : NotExists(t)
    \/ \E t \in Threads : ExistsFailed(t)
    \/ \E t \in Threads : ExistsRaises(t)
    \/ \E t \in Threads : Return(t)

Spec == Init /\ [][Next]_vars

\* CodeOwners(content) raises on a 200 (line 65): the exception leaves the with
\* block before anything is stored. The parser is a library; whether it can
\* raise is not decided here, this action lets it.
ParseRaises(t) ==
    /\ pc[t] = "requests_get"
    /\ \E resp \in Responses :
        /\ resp.status_code = 200
        /\ Leave(t, resp, "failed")
    /\ Raise(t, "ParseError", "", 0)
    /\ UNCHANGED <<cache, etags, timestamps, clock, ret, fetches, existsCalls>>

\* get_codeowners is called for a repository; the path plays no part in it
CallResolve(t) ==
    /\ pc[t] = "idle"
    /\ \E tr \in Triples :
        /\ args' = [args EXCEPT ![t] =
                      [owner |-> tr[1], repo |-> tr[2], path |-> NoArgs.path,
                       branch |-> tr[3]]]
        /\ key' = [key EXCEPT ![t] = Key(tr[1], tr[2], tr[3])]
    /\ pc' = [pc EXCEPT ![t] = "get_codeowners"]
    /\ UNCHANGED <<cache, etags, timestamps, lock, clock, now, headers, response,
                   codeowners, ret, error, fetches, existsCalls, waited>>

\* get_codeowners has returned or raised; what its caller does with the result
\* takes no lock and is left out: the thread is ready for the next call
ReturnResolve(t) ==
    /\ pc[t] \in {"of", "done"}
    /\ pc' = [pc EXCEPT ![t] = "idle"]
    /\ args' = [args EXCEPT ![t] = NoArgs]
    /\ key' = [key EXCEPT ![t] = << >>]
    /\ codeowners' = [codeowners EXCEPT ![t] = NoRuleSet]
    /\ response' = [response EXCEPT ![t] = NoResponse]
    /\ error' = [error EXCEPT ![t] = NoError]
    /\ fetches' = [fetches EXCEPT ![t] = 0]
    /\ waited' = [waited EXCEPT ![t] = "no"]
    /\ UNCHANGED <<cache, etags, timestamps, lock, clock, now, headers, ret,
                   existsCalls>>

\* the calls of get_codeowners alone, with every way out of its with block
NextFair ==
    \/ Tick
    \/ \E t \in Threads : CallResolve(t)
    \/ \E t \in Threads : Hit(t)
    \/ \E t \in Threads : Miss(t)
    \/ \E t \in Threads : NotModified(t)
    \/ \E t \in Threads : Fresh(t)
    \/ \E t \in Threads : Failed(t)
    \/ \E t \in Threads : FetchRaises(t)
    \/ \E t \in Threads : ParseRaises(t)
    \/ \E t \in Threads : ReturnResolve(t)

\* requests.get returns or raises in the end, and a call standing at a lock
\* that stays free takes it (weak fairness: the thread is runnable and runs).
\* threading.Lock promises no order among the calls that want it, so a call
\* is not promised the lock when others take it again and again.
Fairness ==
    \A t \in Threads :
        /\ WF_vars(NotModified(t) \/ Fresh(t) \/ Failed(t) \/ FetchRaises(t)
                     \/ ParseRaises(t))
        /\ WF_vars(Hit(t) \/ Miss(t))

SpecFair == Init /\ [][NextFair]_vars /\ Fairness

\* get_file_owner with arguments that hold a separator of the key format
CallKeys(t) ==
    /\ pc[t] = "idle"
    /\ \E tr \in KeyTriples, p \in Paths :
        /\ args' = [args EXCEPT ![t] =
                      [owner |-> tr[1], repo |-> tr[2], path |-> p, branch |-> tr[3]]]
        /\ key' = [key EXCEPT ![t] = Key(tr[1], tr[2], tr[3])]
    /\ pc' = [pc EXCEPT ![t] = "get_codeowners"]
    /\ UNCHANGED <<cache, etags, timestamps, lock, clock, now, headers, response,
                   codeowners, ret, error, fetches, existsCalls, waited>>

NextKeys ==
    \/ Tick
    \/ \E t \in Threads : CallKeys(t)
    \/ \E t \in Threads : Hit(t)
    \/ \E t \in Threads : Miss(t)
    \/ \E t \in Threads : NotModified(t)
    \/ \E t \in Threads : Fresh(t)
    \/ \E t \in Threads : Failed(t)
    \/ \E t \in Threads : FetchRaises(t)
    \/ \E t \in Threads : Of(t)
    \/ \E t \in Threads : Exists(t)
    \/ \E t \in Threads : NotExists(t)
    \/ \E t \in Threads : ExistsFailed(t)
    \/ \E t \in Threads : ExistsRaises(t)
    \/ \E t \in Threads : Return(t)

SpecKeys == Init /\ [][NextKeys]_vars

\* ------------------------------------------------------------------ claims

\* steps of thread t: it passes the lock; its request ends
Starts(t) == pc[t] = "get_codeowners" /\ pc'[t] # "get_codeowners"
Responds(t) == pc[t] = "requests_get" /\ pc'[t] # "requests_get"

\* the failures get_codeowners raises on purpose (the spec's UpstreamError)
IsUpstreamError(e) == e.type \in {"Exception", "RequestException"}

FetchError(status) ==
    [type |-> "Exception", msg |-> "Failed to fetch CODEOWNERS", status_code |-> status]

EmptyRuleSet == [p \in Paths |-> << >>]

\* C1 (TTL hit): a get_codeowners call that passes the lock while the key has
\* a cached object whose timestamp is less than CACHE_TTL_SECS old returns
\* that object, makes no request and leaves cache, etags and timestamps as
\* they are.
C1_TTLHit ==
    [][\A t \in Threads :
        ( /\ Starts(t)
          /\ key[t] \in DOMAIN cache
          /\ key[t] \in DOMAIN timestamps
          /\ clock - timestamps[key[t]] < CACHE_TTL_SECS )
        => ( /\ pc'[t] = "of"
             /\ codeowners'[t] = cache[key[t]]
             /\ fetches'[t] = 0
             /\ response'[t] = NoResponse
             /\ UNCHANGED <<cache, etags, timestamps, lock>> )]_vars

C1_Witness ==
    \E t \in Threads :
        /\ pc[t] = "of"
        /\ fetches[t] = 0
        /\ response[t] = NoResponse
        /\ key[t] \in DOMAIN timestamps
        /\ clock - timestamps[key[t]] = 1
        /\ codeowners[t] = cache[key[t]]

\* C2 (TTL expiry triggers revalidation): a call that passes the lock while
\* the key's entry is CACHE_TTL_SECS old or older sends exactly one request,
\* whose If-None-Match header is the ETag stored for the key (no header when
\* none is stored), and leaves get_codeowners after that one request.
C2_ExpiryRevalidates ==
    [][\A t \in Threads :
        /\ ( /\ Starts(t)
             /\ key[t] \in DOMAIN cache
             /\ key[t] \in DOMAIN timestamps
             /\ clock - timestamps[key[t]] >= CACHE_TTL_SECS )
           => ( /\ pc'[t] = "requests_get"
                /\ fetches'[t] = 1
                /\ Get(headers'[t], "If-None-Match", None) = Get(etags, key[t], None) )
        /\ Responds(t)
           => ( /\ pc'[t] \in {"of", "done"}
                /\ fetches'[t] = 1 )]_vars

C2_Witness ==
    \E t \in Threads :
        /\ pc[t] = "requests_get"
        /\ key[t] \in DOMAIN cache
        /\ now[t] - timestamps[key[t]] = CACHE_TTL_SECS
        /\ "If-None-Match" \in DOMAIN headers[t]
        /\ headers[t]["If-None-Match"] = etags[key[t]]
        /\ fetches[t] = 1

\* C3 (NotModified preserves content, refreshes the timestamp): a 304 for a
\* key with a cached object returns that object, leaves cache and etags as
\* they are and sets the key's timestamp to the call's now, which is not
\* older than the one replaced; and no request is ever in flight for a key
\* whose entry was fresh when the call read the time.
C3_NotModifiedRefreshes ==
    /\ [][\A t \in Threads :
            ( /\ Responds(t)
              /\ key[t] \in DOMAIN cache
              /\ response'[t].status_code = 304 )
            => ( /\ pc'[t] = "of"
                 /\ codeowners'[t] = cache[key[t]]
                 /\ cache' = cache
                 /\ etags' = etags
                 /\ timestamps' = [timestamps EXCEPT ![key[t]] = now[t]]
                 /\ now[t] >= timestamps[key[t]] )]_vars
    /\ [](\A t \in Threads :
            ( /\ pc[t] = "requests_get"
              /\ key[t] \in DOMAIN cache
              /\ key[t] \in DOMAIN timestamps )
            => now[t] - timestamps[key[t]] >= CACHE_TTL_SECS)

C3_Witness ==
    \E t \in Threads, u \in Threads :
        /\ pc[t] = "of"
        /\ response[t].status_code = 304
        /\ timestamps[key[t]] >= CACHE_TTL_SECS
        /\ pc[u] = "get_codeowners"
        /\ key[u] = key[t]
        /\ lock = NoThread
        /\ clock - timestamps[key[u]] < CACHE_TTL_SECS

C6_WaiterNeverFetches ==
    \A t \in Threads : waited[t] # "no" => pc[t] # "requests_get"

\* C6 as amended: at most one request is in flight at a time; a call that
\* stood at the lock while a request for the same key ended with the entry
\* stored or revalidated makes no request and returns the stored object if
\* it reads a time less than CACHE_TTL_SECS after the stored timestamp, and
\* makes its own request only when that window has passed (or when the
\* request it waited for failed).
C6_SerializedRefresh ==
    /\ [](\A t \in Threads, u \in Threads :
            (t # u /\ pc[t] = "requests_get") => pc[u] # "requests_get")
    /\ [](\A t \in Threads :
            (pc[t] = "requests_get" /\ waited[t] = "stored")
            => now[t] - timestamps[key[t]] >= CACHE_TTL_SECS)
    /\ [][\A t \in Threads :
            ( /\ Starts(t)
              /\ waited[t] = "stored"
              /\ clock - timestamps[key[t]] < CACHE_TTL_SECS )
            => ( /\ pc'[t] = "of"
                 /\ fetches'[t] = 0
                 /\ codeowners'[t] = cache[key[t]] )]_vars

C6_Witness ==
    \E t \in Threads :
        /\ pc[t] = "of"
        /\ waited[t] = "stored"
        /\ fetches[t] = 0
        /\ codeowners[t] = cache[key[t]]

\* C7 as claimed (unrelated keys are not serialized): while a request for
\* one key is in flight, a call for another key standing at the lock finds
\* the lock free.
C7_UnrelatedNotBlocked ==
    \A t \in Threads, u \in Threads :
        ( /\ pc[t] = "requests_get"
          /\ pc[u] = "get_codeowners"
          /\ key[u] # key[t] )
        => lock = NoThread

\* C7 as amended: the cache has one lock for all keys and holds it across
\* the request: while a request is in flight its caller holds the lock, and
\* no call standing at the lock, for whatever key, hit or miss, can pass it.
C7_OneLockForAllKeys ==
    \A t \in Threads :
        pc[t] = "requests_get"
        => /\ lock = t
           /\ \A u \in Threads :
                pc[u] = "get_codeowners"
                => (~ENABLED Hit(u) /\ ~ENABLED Miss(u))

C7_Witness ==
    \E t \in Threads, u \in Threads :
        /\ pc[t] = "requests_get"
        /\ pc[u] = "get_codeowners"
        /\ key[u] # key[t]
        /\ key[u] \in DOMAIN cache
        /\ clock - timestamps[key[u]] < CACHE_TTL_SECS

\* C8 (ambiguity resolution): an empty match always leads to one
\* get_file_exists call; its status 200 gives the empty list and no error,
\* 404 gives FileNotFoundError, and anything else (another status, or an
\* exception of requests.get) gives an upstream error.
C8_AmbiguityResolution ==
    [][\A t \in Threads :
        /\ ( /\ pc[t] = "of"
             /\ pc'[t] # "of"
             /\ codeowners[t][args[t].path] = << >> )
           => ( /\ pc'[t] = "get_file_exists"
                /\ existsCalls'[t] = 1 )
        /\ ( /\ pc[t] = "get_file_exists"
             /\ pc'[t] # "get_file_exists" )
           => ( /\ pc'[t] = "done"
                /\ existsCalls'[t] = 1
                /\ CASE response'[t].status_code = 200 ->
                            ret'[t] = << >> /\ error'[t] = NoError
                     [] response'[t].status_code = 404 ->
                            error'[t].type = "FileNotFoundError"
                     [] OTHER -> IsUpstreamError(error'[t]) )]_vars

C8_Witness ==
    \E t \in Threads :
        /\ pc[t] = "done"
        /\ existsCalls[t] = 1
        /\ response[t].status_code = 404
        /\ error[t].type = "FileNotFoundError"

\* C9 (owner projection and precedence): a non-empty match is returned as
\* the identifiers of its pairs, as many and in the same order, without an
\* error and without a get_file_exists call.
C9_OwnerProjection ==
    [][\A t \in Threads :
        ( /\ pc[t] = "of"
          /\ pc'[t] # "of"
          /\ codeowners[t][args[t].path] # << >> )
        => LET matches == codeowners[t][args[t].path]
           IN  /\ pc'[t] = "done"
               /\ Len(ret'[t]) = Len(matches)
               /\ \A i \in 1..Len(matches) : ret'[t][i] = matches[i][2]
               /\ error'[t] = NoError
               /\ existsCalls'[t] = 0]_vars

C9_Witness ==
    \E t \in Threads :
        /\ pc[t] = "done"
        /\ ret[t] = <<"@zed", "@acme/backend", "bob@acme.io", "@zed">>
        /\ error[t] = NoError
        /\ existsCalls[t] = 0

\* C10 as claimed (NotModified without a prior entry is an upstream error):
\* a call that ends on a 304 (which happens only when the key has no cached
\* object) fails with the same fetch error as any other failed fetch.
C10_NotModifiedNoEntryIsFetchError ==
    \A t \in Threads :
        (pc[t] = "done" /\ response[t].status_code = 304)
        => error[t] = FetchError(304)

\* C11 as claimed (discriminated outcomes): a finished call has an owner
\* list and no error, or FileNotFoundError, or an upstream error;
\* FileNotFoundError comes only after get_file_exists answered 404; a call
\* whose get_codeowners failed ends with an upstream error and has made no
\* get_file_exists call.
C11_DiscriminatedOutcomes ==
    \A t \in Threads :
        pc[t] = "done"
        => /\ \/ error[t] = NoError
              \/ error[t].type = "FileNotFoundError"
              \/ IsUpstreamError(error[t])
           /\ error[t].type = "FileNotFoundError"
              => (existsCalls[t] = 1 /\ response[t].status_code = 404)
           /\ fetches[t] = 1
              => (IsUpstreamError(error[t]) /\ existsCalls[t] = 0 /\ ret[t] = << >>)

\* C12 (single in-flight fetch per key): for every key at most one call has
\* its request in flight, and that call holds the lock; every other call
\* for the key stands before the lock or has left get_codeowners.
C12_SingleInFlight ==
    \A t \in Threads :
        pc[t] = "requests_get"
        => /\ lock = t
           /\ Cardinality({u \in Threads :
                              pc[u] = "requests_get" /\ key[u] = key[t]}) = 1
           /\ \A u \in Threads \ {t} :
                key[u] = key[t]
                => pc[u] \in {"get_codeowners", "of", "get_file_exists"}

C12_Witness ==
    \E t \in Threads, u \in Threads :
        /\ pc[t] = "requests_get"
        /\ pc[u] = "get_codeowners"
        /\ key[u] = key[t]
        /\ key[t] \in DOMAIN cache
        /\ now[t] - timestamps[key[t]] >= CACHE_TTL_SECS

\* C13 (no unrevalidated stale serve): get_codeowners returns an object
\* only by a hit on an entry younger than CACHE_TTL_SECS at the time read,
\* or after the one request of the call was answered 200 or 304; an entry
\* of age CACHE_TTL_SECS or more is never returned without a request.
C13_NoUnrevalidatedServe ==
    [][\A t \in Threads :
        (pc[t] # "of" /\ pc'[t] = "of")
        => \/ /\ pc[t] = "get_codeowners"
              /\ key[t] \in DOMAIN cache
              /\ key[t] \in DOMAIN timestamps
              /\ clock - timestamps[key[t]] < CACHE_TTL_SECS
              /\ fetches'[t] = 0
              /\ codeowners'[t] = cache[key[t]]
           \/ /\ pc[t] = "requests_get"
              /\ fetches'[t] = 1
              /\ response'[t].status_code \in {200, 304}
              /\ codeowners'[t] = cache'[key[t]]]_vars

C13_Witness ==
    \E t \in Threads :
        /\ pc[t] = "of"
        /\ fetches[t] = 1
        /\ response[t].status_code = 200
        /\ response[t].text = "d2"
        /\ timestamps[key[t]] = CACHE_TTL_SECS + 1
        /\ codeowners[t] = cache[key[t]]

\* C14 (monotonic fetchedAt): a timestamp once stored stays stored and
\* never decreases; a step that writes the timestamps is the end of a
\* request, writes only the caller's key and stores the time the caller
\* read before the request.
C14_MonotonicFetchedAt ==
    [][/\ \A k \in DOMAIN timestamps :
            /\ k \in DOMAIN timestamps'
            /\ timestamps'[k] >= timestamps[k]
       /\ timestamps' # timestamps
          => \E t \in Threads :
                /\ Responds(t)
                /\ timestamps' = Put(timestamps, key[t], now[t])
                /\ now[t] <= clock]_vars

C14_Witness ==
    \E t \in Threads :
        /\ pc[t] = "of"
        /\ response[t].status_code = 304
        /\ timestamps[key[t]] = MaxTime
        /\ clock = MaxTime

\* C15 as claimed (a failed resolve leaves the cache unchanged): a request
\* whose end makes the call fail leaves cache, etags and timestamps as they
\* were; a step that writes any of them is a 200 or 304 that makes the call
\* return, and it writes only the caller's key.
C15_FailureWritesNothing ==
    [][\A t \in Threads :
        Responds(t)
        => /\ pc'[t] = "done" => UNCHANGED <<cache, etags, timestamps>>
           /\ pc'[t] = "of"
              => \A k \in DOMAIN cache' \ {key[t]} :
                    /\ k \in DOMAIN cache
                    /\ cache'[k] = cache[k]
                    /\ etags'[k] = etags[k]
                    /\ timestamps'[k] = timestamps[k]]_vars

\* C16 as claimed (entry well-formedness): whenever the lock is free, cache,
\* etags and timestamps have the same keys.
C16_SameKeySets ==
    lock = NoThread
    => /\ DOMAIN cache = DOMAIN etags
       /\ DOMAIN cache = DOMAIN timestamps

\* C17 (validator/content pairing): the ETag stored for a key is the one
\* of the 200 response whose text was parsed into the object stored for the
\* key, None when that response had no ETag header, and the next request
\* for the key is then sent without If-None-Match; a request that ends in
\* anything but 200 leaves cache and etags as they are.
C17_ValidatorPairing ==
    /\ [](\A k \in DOMAIN cache :
            /\ k \in DOMAIN etags
            /\ \E resp \in Responses :
                /\ resp.status_code = 200
                /\ cache[k] = [p \in Paths |-> Rules(resp.text, p)]
                /\ etags[k] = resp.ETag)
    /\ [](\A t \in Threads :
            (pc[t] = "requests_get" /\ key[t] \in DOMAIN etags)
            => IF etags[key[t]] = None
               THEN "If-None-Match" \notin DOMAIN headers[t]
               ELSE /\ "If-None-Match" \in DOMAIN headers[t]
                    /\ headers[t]["If-None-Match"] = etags[key[t]])
    /\ [][\A t \in Threads :
            Responds(t)
            => IF response'[t].status_code = 200
               THEN /\ cache' = Put(cache, key[t],
                                    [p \in Paths |-> Rules(response'[t].text, p)])
                    /\ etags' = Put(etags, key[t], response'[t].ETag)
               ELSE UNCHANGED <<cache, etags>>]_vars

C17_Witness ==
    \E t \in Threads :
        /\ pc[t] = "requests_get"
        /\ key[t] \in DOMAIN cache
        /\ etags[key[t]] = None
        /\ cache[key[t]]["main.go"] # << >>
        /\ "If-None-Match" \notin DOMAIN headers[t]
        /\ now[t] - timestamps[key[t]] >= CACHE_TTL_SECS

\* C18: every way out of get_codeowners releases the lock (hit, 200, 304,
\* error status, exception of the request, of the parser, of the missing-entry
\* lookup); so, when every request returns or raises, every call standing at
\* the lock passes it and every get_codeowners call ends with a value or an
\* exception
C18_EveryWaiterAcquires ==
    /\ [][\A t \in Threads :
            /\ Responds(t) => lock' = NoThread /\ pc'[t] \in {"of", "done"}
            /\ (Starts(t) /\ pc'[t] = "of") => lock' = NoThread]_vars
    /\ \A t \in Threads :
        (pc[t] \in {"get_codeowners", "requests_get"}) ~> (pc[t] \in {"of", "done"})

\* C18 amended: every way out of get_codeowners releases the lock; when every
\* request returns or raises, the call that holds the lock ends and no longer
\* holds it, and a call standing at the lock passes it unless another call
\* has taken the lock first
C18_LockReleased ==
    /\ [][\A t \in Threads :
            /\ Responds(t) => lock' = NoThread /\ pc'[t] \in {"of", "done"}
            /\ (Starts(t) /\ pc'[t] = "of") => lock' = NoThread]_vars
    /\ [](\A t \in Threads : lock = t => pc[t] = "requests_get")
    /\ \A t \in Threads :
        /\ (pc[t] = "requests_get") ~> (pc[t] \in {"of", "done"} /\ lock # t)
        /\ (pc[t] = "get_codeowners")
              ~> (pc[t] # "get_codeowners" \/ lock \in Threads \ {t})

\* a request has failed, and a call that stood at the lock meanwhile holds it now
C18_Witness ==
    \E t \in Threads : \E u \in Threads \ {t} :
        /\ pc[t] = "done"
        /\ fetches[t] = 1
        /\ error[t].type \in {"RequestException", "ParseError", "KeyError", "Exception"}
        /\ pc[u] = "requests_get"
        /\ waited[u] = "failed"
        /\ lock = u

\* C19: calls whose (owner, repo, branch) differ have different keys, so the
\* rule set a call is handed by a cache hit was fetched for its own triple
C19_KeyIsolation ==
    \A t \in Threads, u \in Threads :
        /\ (key[t] # << >> /\ key[u] # << >>
              /\ <<args[t].owner, args[t].repo, args[t].branch>>
                   # <<args[u].owner, args[u].repo, args[u].branch>>)
            => key[t] # key[u]
        /\ (pc[t] = "of" /\ fetches[t] = 1 /\ pc[u] = "of" /\ fetches[u] = 0
              /\ key[u] = key[t])
            => (/\ args[u].owner = args[t].owner
                /\ args[u].repo = args[t].repo
                /\ args[u].branch = args[t].branch)

TypeOK ==
    /\ DOMAIN cache \subseteq {Key(tr[1], tr[2], tr[3]) : tr \in Triples}
    /\ lock \in Threads \cup {NoThread}
    /\ clock \in 0..MaxTime

====
